---- MODULE Spec2Model ----
(***************************************************************************)
(* Margin-trading ledger: the trading service (app/services/trading.py)    *)
(* running against the account store (app/redis_client.py) and the HTTP    *)
(* boundary (app/api.py).                                                  *)
(*                                                                         *)
(* A request is a coroutine: every `await` on a store is a step, so a     *)
(* request is modelled as a process with a program counter.  Spec runs    *)
(* the requests one at a time, SpecConc interleaves two of them.           *)
(*                                                                         *)
(* Numbers are exact decimals, written as normalised fractions <<n, d>>;   *)
(* + - * are exact and / rounds half-even to DivPlaces decimal places, as  *)
(* decimal.Decimal does at its context precision.  The store's str/float   *)
(* round trip of a number is modelled for the type of the number only      *)
(* (Kinds, in SpecCalc); the services compute on the decimals.             *)
(***************************************************************************)
EXTENDS Integers, Sequences, FiniteSets, TLC

\* ------------------------------------------------------------------ bounds
\* Requests submitted in one behaviour.
MaxRequests == 2
\* Requests submitted in one behaviour of SpecConc.
MaxConcRequests == 2
\* Mark-price updates in one behaviour.
MaxMarkUpdates == 1
\* Decimal places kept by a division.
DivPlaces == 2
\* Runs of the margin scan in one behaviour.
MaxScans == 2

Procs == {1, 2}
Accounts == {1, 2}
Symbols == {"BTC-PERP", "ETH-PERP"}
Sides == {"BUY", "SELL", "buy", "HOLD"}

\* --------------------------------------------------------- exact decimals
RECURSIVE GCD(_, _)
GCD(a, b) == IF b = 0 THEN a ELSE GCD(b, a % b)

AbsInt(n) == IF n < 0 THEN -n ELSE n

RECURSIVE Pow10(_)
Pow10(k) == IF k = 0 THEN 1 ELSE 10 * Pow10(k - 1)

\* The fraction n/d (d # 0) in lowest terms with a positive denominator.
Norm(n, d) ==
    LET g == GCD(AbsInt(n), AbsInt(d))
        s == IF d < 0 THEN -1 ELSE 1
    IN  <<(s * n) \div g, (s * d) \div g>>

D(n) == <<n, 1>>
Zero == D(0)
\* a + b over the least common denominator.
Add(a, b) ==
    LET g == GCD(a[2], b[2])
    IN  Norm(a[1] * (b[2] \div g) + b[1] * (a[2] \div g), (a[2] \div g) * b[2])
Neg(a) == <<-a[1], a[2]>>
Sub(a, b) == Add(a, Neg(b))
\* a * b, cancelling across before multiplying.
Mul(a, b) ==
    LET g1 == GCD(AbsInt(a[1]), b[2])
        g2 == GCD(AbsInt(b[1]), a[2])
    IN  Norm((a[1] \div g1) * (b[1] \div g2), (a[2] \div g2) * (b[2] \div g1))
Abs(a) == <<AbsInt(a[1]), a[2]>>
Lt(a, b) ==
    LET g == GCD(a[2], b[2])
    IN  a[1] * (b[2] \div g) < b[1] * (a[2] \div g)
IsZero(a) == a[1] = 0
\* The whole-number test left out.
IsFractional_never(q) == FALSE

\* Decimal `q % 1 != 0`: q is not a whole number.
IsFractional(q) == q[2] # 1

\* Decimal division a / b (b # 0): the quotient rounded half-even to
\* DivPlaces decimal places.
Div(a, b) ==
    LET x == Mul(a, <<(IF b[1] < 0 THEN -1 ELSE 1) * b[2], AbsInt(b[1])>>)
        S == Pow10(DivPlaces)
        n == AbsInt(x[1])
        m == (n % x[2]) * S
        q == (n \div x[2]) * S + (m \div x[2])
        r == m % x[2]
        up == (2 * r > x[2]) \/ (2 * r = x[2] /\ q % 2 = 1)
        k == IF up THEN q + 1 ELSE q
    IN  Norm((IF x[1] < 0 THEN -1 ELSE 1) * k, S)

RECURSIVE SumOver(_, _)
\* Sum of f[x] over the finite set S.
SumOver(f, S) ==
    IF S = {} THEN Zero
    ELSE LET x == CHOOSE y \in S : TRUE
         IN  Add(f[x], SumOver(f, S \ {x}))

\* ------------------------------------------------------------------ inputs
Quantities == {<<1, 2>>, D(1), D(2)}
Prices == {D(50000), D(60000)}
MarkPrices == {D(40000), D(60000)}

INITIAL_MARGIN_RATE == <<1, 5>>
MAINTENANCE_MARGIN_RATE == <<1, 10>>

\* ------------------------------------------------------------------- state
VARIABLES
    balances,          \* redis hash "balances": account id -> balance
    positions,         \* redis hashes "positions:{id}": symbol -> position
    mark_prices,       \* redis hash "mark_prices": symbol -> price
    equity_snap,       \* redis keys "account:{id}:equity"
    used_margin_snap,  \* redis keys "account:{id}:used_margin"
    trades,            \* postgres table trades
    pc,                \* where each request is
    req,               \* the request each process serves
    loc,               \* the locals of execute_trade / pre_trade_check
    result,            \* the HTTP response of the request
    ops,               \* the store calls the request has made, in order
    pre,               \* the stores as they were when the request arrived
    nreq,              \* requests submitted so far
    nmark,             \* mark-price updates so far
    liquidations,      \* postgres table liquidations
    scan,              \* the margin scan: its position, locals and report
    calc,              \* a call of a pure function: its arguments and results
    client             \* direct calls of the store client, and position queries

vars == <<balances, positions, mark_prices, equity_snap, used_margin_snap,
          trades, pc, req, loc, result, ops, pre, nreq, nmark,
          liquidations, scan, calc, client>>

\* What the trading service and the mark-price endpoint never touch.
other_services == <<liquidations, scan, calc, client>>

store == <<balances, positions, mark_prices, equity_snap, used_margin_snap, trades>>

\* An Optional value: None is <<>>, a present value x is <<x>>.
None == <<>>
Some(x) == <<x>>

Position(q, p) == [quantity |-> q, avg_price |-> p]

EmptyHash == [k \in {} |-> Zero]

Locals0 ==
    [equity |-> Zero, required_margin |-> Zero, current_positions |-> EmptyHash,
     current_maintenance |-> Zero, message |-> "", current_position |-> None,
     new_quantity |-> Zero, new_avg_price |-> Zero,
     existing_position |-> Position(Zero, Zero), current_balance |-> Zero]

Req0 == [account_id |-> 0, symbol |-> "", side |-> "", quantity |-> Zero, price |-> Zero]
Result0 == [status |-> 0, exc |-> "", msg |-> "", trade_id |-> 0]
Pre0 == [balances |-> EmptyHash, positions |-> EmptyHash, mark_prices |-> EmptyHash,
         equity_snap |-> EmptyHash, used_margin_snap |-> EmptyHash, trades |-> <<>>,
         liquidations |-> <<>>]

\* The margin scan before its first run.  n_started, n_done and n_failed count
\* the runs; first_quiet, first_nreq and first_nmark describe the moment the
\* first run began; rows_at_start is the size of the liquidation history when
\* the current run began.
Scan0 ==
    [pc |-> "idle", all_accounts |-> <<>>, i |-> 0, equity |-> Zero,
     maintenance_required |-> Zero, liquidation_candidates |-> <<>>,
     accounts_detail |-> <<>>, report |-> None, status |-> 0,
     n_started |-> 0, n_done |-> 0, n_failed |-> 0,
     first_quiet |-> FALSE, first_nreq |-> 0, first_nmark |-> 0,
     rows_at_start |-> 0]

\* No pure function called yet.
Calc0 ==
    [current_position |-> None, trade_quantity |-> Zero, trade_price |-> Zero,
     equity |-> Zero, maintenance_required |-> Zero,
     trading |-> None, calculations |-> None, candidate |-> None,
     margin |-> None, utilisation |-> None, calculations_utilisation |-> None,
     kind |-> "Decimal", number |-> None]

\* No direct call of the store client and no position query yet.  n_calls
\* counts the direct calls; last is the latest set_position call (its
\* arguments and the entry it found), got what get_position returned after
\* it; queries are the answers of GET /positions/{id}, each with the moment
\* it was given; history is the latest answer of get_liquidation_history,
\* with its arguments and the table it was read from.
Client0 ==
    [n_calls |-> 0, last |-> None, got |-> None, queries |-> <<>>, history |-> None]

\* ------------------------------------------------------- the account store
\* AccountRedisClient.get_balance: 0 when the hash has no entry.
get_balance(account_id) ==
    IF account_id \in DOMAIN balances THEN balances[account_id] ELSE Zero

\* AccountRedisClient.get_position: a zero position, never None, when the
\* hash has no entry for the symbol.
get_position(account_id, symbol) ==
    IF symbol \in DOMAIN positions[account_id]
    THEN positions[account_id][symbol]
    ELSE Position(Zero, Zero)

\* AccountRedisClient.get_all_positions: the entries of the hash.
get_all_positions(account_id) == positions[account_id]

\* set_position leaving the old average price on an entry that becomes flat.
set_position_value_stale(existing_position, quantity, entry_price) ==
    LET existing_qty == existing_position.quantity
        existing_avg_price == existing_position.avg_price
        new_quantity == Add(existing_qty, quantity)
    IN  IF ~IsZero(new_quantity)
        THEN Position(new_quantity,
                      Div(Add(Mul(existing_qty, existing_avg_price),
                              Mul(quantity, entry_price)),
                          new_quantity))
        ELSE Position(new_quantity, existing_avg_price)

\* AccountRedisClient.set_position, the value it stores: the given quantity
\* and price are merged into the existing entry by weighted average.
set_position_value(existing_position, quantity, entry_price) ==
    LET existing_qty == existing_position.quantity
        existing_avg_price == existing_position.avg_price
        new_quantity == Add(existing_qty, quantity)
    IN  IF ~IsZero(new_quantity)
        THEN Position(new_quantity,
                      Div(Add(Mul(existing_qty, existing_avg_price),
                              Mul(quantity, entry_price)),
                          new_quantity))
        ELSE Position(new_quantity, Zero)

RECURSIVE KeysInOrder(_)
\* The keys of a hash as HGETALL lists them, here in ascending order.
KeysInOrder(S) ==
    IF S = {} THEN <<>>
    ELSE LET k == CHOOSE x \in S : \A y \in S : x <= y
         IN  <<k>> \o KeysInOrder(S \ {k})

\* The accounts taken from the position hashes instead of the balances.
get_all_accounts_with_positions ==
    KeysInOrder({a \in DOMAIN positions : positions[a] # EmptyHash})

\* AccountRedisClient.get_all_accounts: the keys of the hash "balances".
get_all_accounts == KeysInOrder(DOMAIN balances)

\* MarketRedisClient.get_mark_price as the services use it (`if mark_price:`):
\* a missing or zero price counts as not available.
has_mark_price(marks, symbol) ==
    symbol \in DOMAIN marks /\ ~IsZero(marks[symbol])

\* ------------------------------------------------------------ calculations
\* The equity with a position that has no mark price valued at price 0.
equity_of_unmarked_at_zero(balance, poss, marks) ==
    LET pnl == [s \in DOMAIN poss |->
                  IF IsZero(poss[s].quantity) THEN Zero
                  ELSE Mul(Sub(IF has_mark_price(marks, s) THEN marks[s] ELSE Zero,
                               poss[s].avg_price),
                           poss[s].quantity)]
    IN  Add(balance, SumOver(pnl, DOMAIN poss))

\* TradingService.calculate_equity on a balance, a positions hash and the
\* mark prices.
equity_of(balance, poss, marks) ==
    LET pnl == [s \in DOMAIN poss |->
                  IF IsZero(poss[s].quantity) THEN Zero
                  ELSE IF has_mark_price(marks, s)
                       THEN Mul(Sub(marks[s], poss[s].avg_price), poss[s].quantity)
                       ELSE Zero]
    IN  Add(balance, SumOver(pnl, DOMAIN poss))

calculate_equity(account_id) ==
    equity_of(get_balance(account_id), get_all_positions(account_id), mark_prices)

\* The maintenance margin taken on the signed quantity.
maintenance_of_signed(poss, marks) ==
    LET m == [s \in DOMAIN poss |->
                IF IsZero(poss[s].quantity) THEN Zero
                ELSE IF has_mark_price(marks, s)
                     THEN Mul(Mul(poss[s].quantity, marks[s]), MAINTENANCE_MARGIN_RATE)
                     ELSE Zero]
    IN  SumOver(m, DOMAIN poss)

\* TradingService.calculate_maintenance_margin on a positions hash and the
\* mark prices.
maintenance_of(poss, marks) ==
    LET m == [s \in DOMAIN poss |->
                IF IsZero(poss[s].quantity) THEN Zero
                ELSE IF has_mark_price(marks, s)
                     THEN Mul(Mul(Abs(poss[s].quantity), marks[s]),
                              MAINTENANCE_MARGIN_RATE)
                     ELSE Zero]
    IN  SumOver(m, DOMAIN poss)

calculate_maintenance_margin(account_id) ==
    maintenance_of(get_all_positions(account_id), mark_prices)

\* The margin taken on the signed quantity.
calculate_initial_margin_required_signed(quantity, price) ==
    Mul(Mul(quantity, price), INITIAL_MARGIN_RATE)

\* TradingService.calculate_initial_margin_required.
calculate_initial_margin_required(quantity, price) ==
    Mul(Mul(Abs(quantity), price), INITIAL_MARGIN_RATE)

\* str.upper() on the sides that are submitted.
Upper(side) ==
    CASE side = "buy" -> "BUY"
      [] side = "sell" -> "SELL"
      [] side = "hold" -> "HOLD"
      [] OTHER -> side

\* pre_trade_check with the BUY test written `equity <= total_required`.
pre_trade_decision_le(side, trade_quantity, equity, required_margin, current_positions, current_maintenance) ==
    IF Upper(side) = "SELL"
    THEN IF "BTC-PERP" \notin DOMAIN current_positions
         THEN "KeyError"
         ELSE IF Lt(Sub(current_positions["BTC-PERP"].quantity, trade_quantity), Zero)
              THEN "Insufficient quantity"
              ELSE "approved"
    ELSE IF Upper(side) = "BUY"
         THEN IF ~Lt(Add(required_margin, current_maintenance), equity)
              THEN "Insufficient equity"
              ELSE "approved"
         ELSE "Invalid side"

\* pre_trade_check looking up the BTC-PERP position before it tests the side.
pre_trade_decision_lookup_first(side, trade_quantity, equity, required_margin, current_positions, current_maintenance) ==
    IF Upper(side) # "BUY" /\ "BTC-PERP" \notin DOMAIN current_positions
    THEN "KeyError"
    ELSE IF Upper(side) = "SELL"
         THEN IF Lt(Sub(current_positions["BTC-PERP"].quantity, trade_quantity), Zero)
              THEN "Insufficient quantity"
              ELSE "approved"
         ELSE IF Upper(side) = "BUY"
              THEN IF Lt(equity, Add(required_margin, current_maintenance))
                   THEN "Insufficient equity"
                   ELSE "approved"
              ELSE "Invalid side"

\* pre_trade_check with the BUY test on the trade's own margin only.
pre_trade_decision_no_maintenance(side, trade_quantity, equity, required_margin, current_positions, current_maintenance) ==
    IF Upper(side) = "SELL"
    THEN IF "BTC-PERP" \notin DOMAIN current_positions
         THEN "KeyError"
         ELSE IF Lt(Sub(current_positions["BTC-PERP"].quantity, trade_quantity), Zero)
              THEN "Insufficient quantity"
              ELSE "approved"
    ELSE IF Upper(side) = "BUY"
         THEN IF Lt(equity, required_margin)
              THEN "Insufficient equity"
              ELSE "approved"
         ELSE "Invalid side"

\* The decision of pre_trade_check once equity, margin, positions and
\* maintenance margin are read: "approved", a rejection, or the exception
\* that leaves it.
pre_trade_decision(side, trade_quantity, equity, required_margin, current_positions, current_maintenance) ==
    IF Upper(side) = "SELL"
    THEN IF "BTC-PERP" \notin DOMAIN current_positions
         THEN "KeyError"
         ELSE IF Lt(Sub(current_positions["BTC-PERP"].quantity, trade_quantity), Zero)
              THEN "Insufficient quantity"
              ELSE "approved"
    ELSE IF Upper(side) = "BUY"
         THEN IF Lt(equity, Add(required_margin, current_maintenance))
              THEN "Insufficient equity"
              ELSE "approved"
         ELSE "Invalid side"

\* calculate_new_position keeping the old average price when the position closes.
calculate_new_position_stale(current_position, trade_quantity, trade_price) ==
    IF current_position = None
    THEN <<trade_quantity, trade_price>>
    ELSE LET current_qty == current_position[1].quantity
             current_avg_price == current_position[1].avg_price
             new_quantity == Add(current_qty, trade_quantity)
         IN  IF IsZero(new_quantity)
             THEN <<Zero, current_avg_price>>
             ELSE IF (Lt(Zero, current_qty) /\ Lt(Zero, trade_quantity))
                     \/ (Lt(current_qty, Zero) /\ Lt(trade_quantity, Zero))
                  THEN <<new_quantity,
                         Div(Add(Mul(current_qty, current_avg_price),
                                 Mul(trade_quantity, trade_price)),
                             new_quantity)>>
                  ELSE <<new_quantity, trade_price>>

\* calculate_new_position averaging in every case, a reduction or a flip too.
calculate_new_position_always_weighted(current_position, trade_quantity, trade_price) ==
    IF current_position = None
    THEN <<trade_quantity, trade_price>>
    ELSE LET current_qty == current_position[1].quantity
             current_avg_price == current_position[1].avg_price
             new_quantity == Add(current_qty, trade_quantity)
         IN  IF IsZero(new_quantity)
             THEN <<Zero, Zero>>
             ELSE <<new_quantity,
                    Div(Add(Mul(current_qty, current_avg_price),
                            Mul(trade_quantity, trade_price)),
                        new_quantity)>>

\* calculate_new_position losing the trade price when there is no position yet.
calculate_new_position_no_first_price(current_position, trade_quantity, trade_price) ==
    IF current_position = None
    THEN <<trade_quantity, Zero>>
    ELSE LET current_qty == current_position[1].quantity
             current_avg_price == current_position[1].avg_price
             new_quantity == Add(current_qty, trade_quantity)
         IN  IF IsZero(new_quantity)
             THEN <<Zero, Zero>>
             ELSE IF (Lt(Zero, current_qty) /\ Lt(Zero, trade_quantity))
                     \/ (Lt(current_qty, Zero) /\ Lt(trade_quantity, Zero))
                  THEN <<new_quantity,
                         Div(Add(Mul(current_qty, current_avg_price),
                                 Mul(trade_quantity, trade_price)),
                             new_quantity)>>
                  ELSE <<new_quantity, trade_price>>

\* TradingService.calculate_new_position.
calculate_new_position(current_position, trade_quantity, trade_price) ==
    IF current_position = None
    THEN <<trade_quantity, trade_price>>
    ELSE LET current_qty == current_position[1].quantity
             current_avg_price == current_position[1].avg_price
             new_quantity == Add(current_qty, trade_quantity)
         IN  IF IsZero(new_quantity)
             THEN <<Zero, Zero>>
             ELSE IF (Lt(Zero, current_qty) /\ Lt(Zero, trade_quantity))
                     \/ (Lt(current_qty, Zero) /\ Lt(trade_quantity, Zero))
                  THEN <<new_quantity,
                         Div(Add(Mul(current_qty, current_avg_price),
                                 Mul(trade_quantity, trade_price)),
                             new_quantity)>>
                  ELSE <<new_quantity, trade_price>>

\* execute_trade: the signed quantity of the trade.
signed_quantity(side, quantity) ==
    IF Upper(side) = "BUY" THEN quantity ELSE Neg(quantity)

\* The change of the balance with the margin taken on either side.
balance_change_always_debit(side, required_margin) == Neg(required_margin)

\* The margin of a BUY left in the balance.
balance_change_no_debit(side, required_margin) ==
    IF Upper(side) = "BUY" THEN Zero ELSE required_margin

\* execute_trade: the change of the balance.
balance_change(side, required_margin) ==
    IF Upper(side) = "BUY" THEN Neg(required_margin) ELSE required_margin

\* api.execute_trade: the HTTP status of an exception leaving the service
\* ("" is a normal return).
http_status(exc) ==
    CASE exc = "" -> 200
      [] exc \in {"TradingError", "TradeNotApproved"} -> 400
      [] OTHER -> 500

\* The exception execute_trade raises for a decision of pre_trade_check.
exception_of(decision) ==
    CASE decision \in {"Insufficient quantity", "Insufficient equity"} -> "TradeNotApproved"
      [] decision = "Invalid side" -> "TradingError"
      [] OTHER -> decision

\* CalculationsService.calculate_new_position (app/services/calculations.py).
calculations_calculate_new_position(current_position, trade_quantity, trade_price) ==
    IF current_position = None
    THEN <<trade_quantity, trade_price>>
    ELSE LET current_qty == current_position[1].quantity
             current_avg_price == current_position[1].avg_price
             new_quantity == Add(current_qty, trade_quantity)
         IN  IF IsZero(new_quantity)
             THEN <<Zero, Zero>>
             ELSE IF (Lt(Zero, current_qty) /\ Lt(Zero, trade_quantity))
                     \/ (Lt(current_qty, Zero) /\ Lt(trade_quantity, Zero))
                  THEN LET total_cost == Add(Mul(current_qty, current_avg_price),
                                             Mul(trade_quantity, trade_price))
                       IN  <<new_quantity, Div(total_cost, new_quantity)>>
                  ELSE <<new_quantity, trade_price>>

\* The liquidation test with the boundary included.
is_liquidation_candidate_le(equity, maintenance_required) ==
    ~Lt(maintenance_required, equity)

\* MarginService.is_liquidation_candidate.
is_liquidation_candidate(equity, maintenance_required) ==
    Lt(equity, maintenance_required)

\* MarginService.calculate_margin_utilisation.
calculate_margin_utilisation(equity, maintenance_required) ==
    IF Lt(Zero, equity)
    THEN Mul(Div(maintenance_required, equity), D(100))
    ELSE D(100)

\* Decimal('Infinity'): not a number of the model, never computed with.
Infinity == <<1, 0>>

\* CalculationsService.calculate_margin_utilisation.
calculations_calculate_margin_utilisation(equity, maintenance_required) ==
    IF IsZero(maintenance_required) THEN Zero
    ELSE IF IsZero(equity) THEN Infinity
    ELSE Mul(Div(maintenance_required, equity), D(100))

\* MarginService.calculate_account_equity.
calculate_account_equity(account_id) ==
    equity_of(get_balance(account_id), get_all_positions(account_id), mark_prices)

\* MarginService.calculate_maintenance_margin_required.
calculate_maintenance_margin_required(account_id) ==
    maintenance_of(get_all_positions(account_id), mark_prices)

\* redis HSET on a hash.
hset(hash, key, value) ==
    [k \in DOMAIN hash \cup {key} |-> IF k = key THEN value ELSE hash[k]]

\* The store calls of calculate_equity / calculate_maintenance_margin: the
\* quote store is read for every position with a nonzero quantity.
mark_reads(account_id) ==
    IF \E s \in DOMAIN positions[account_id] : ~IsZero(positions[account_id][s].quantity)
    THEN <<"get_mark_price">>
    ELSE <<>>

IsWrite(op) == op \in {"hset_position", "set_balance", "set_equity",
                       "set_used_margin", "insert_trade"}
Writes(p) == SelectSeq(ops[p], IsWrite)

InFlight(p) == pc[p] \notin {"idle", "done"}

\* The request ends: the exception (or the normal return) becomes the response.
Finish(p, exc, msg) ==
    /\ pc' = [pc EXCEPT ![p] = "done"]
    /\ result' = [result EXCEPT ![p] =
                    [status |-> http_status(exc), exc |-> exc, msg |-> msg, trade_id |-> 0]]

\* ------------------------------------------------------------------- Init
\* main.lifespan: two funded accounts and one mark price; nothing else stored,
\* no request and no scan under way.
InitService ==
    /\ balances = [a \in {1, 2} |-> IF a = 1 THEN D(10000) ELSE D(5000)]
    /\ positions = [a \in Accounts |-> EmptyHash]
    /\ mark_prices = [s \in {"BTC-PERP"} |-> D(50000)]
    /\ equity_snap = EmptyHash
    /\ used_margin_snap = EmptyHash
    /\ trades = <<>>
    /\ pc = [p \in Procs |-> "idle"]
    /\ req = [p \in Procs |-> Req0]
    /\ loc = [p \in Procs |-> Locals0]
    /\ result = [p \in Procs |-> Result0]
    /\ ops = [p \in Procs |-> <<>>]
    /\ pre = [p \in Procs |-> Pre0]
    /\ nreq = 0
    /\ nmark = 0
    /\ liquidations = <<>>
    /\ scan = Scan0
    /\ client = Client0

Init ==
    /\ InitService
    /\ calc = Calc0

\* ---------------------------------------------------------------- actions
\* POST /trade arrives and execute_trade runs to its first await: the
\* whole-number rule for BTC-PERP is checked before anything is read.
SubmitIn(p, accts, syms, sides, qtys, prices, limit) ==
    /\ pc[p] = "idle"
    /\ nreq < limit
    /\ \E a \in accts, s \in syms, sd \in sides, q \in qtys, pr \in prices :
         /\ req' = [req EXCEPT ![p] =
                      [account_id |-> a, symbol |-> s, side |-> sd,
                       quantity |-> q, price |-> pr]]
         /\ IF s = "BTC-PERP" /\ IsFractional(q)
            THEN Finish(p, "TradingError", "BTC trades must be in whole numbers")
            ELSE /\ pc' = [pc EXCEPT ![p] = "pre_equity"]
                 /\ UNCHANGED result
    /\ pre' = [pre EXCEPT ![p] =
                 [balances |-> balances, positions |-> positions,
                  mark_prices |-> mark_prices, equity_snap |-> equity_snap,
                  used_margin_snap |-> used_margin_snap, trades |-> trades,
                  liquidations |-> liquidations]]
    /\ nreq' = nreq + 1
    /\ UNCHANGED <<store, loc, ops, nmark, other_services>>

\* One request at a time: it arrives when no other is in flight, and the
\* first worker takes it.
Submit(p) ==
    /\ \A q \in Procs \ {p} : pc[q] = "idle"
    /\ \A q \in Procs : q >= p
    /\ SubmitIn(p, Accounts, Symbols, Sides, Quantities, Prices, MaxRequests)

\* pre_trade_check: equity = await calculate_equity(account_id), then the
\* required margin.
PreEquity(p) ==
    /\ pc[p] = "pre_equity"
    /\ loc' = [loc EXCEPT ![p].equity = calculate_equity(req[p].account_id),
                          ![p].required_margin =
                              calculate_initial_margin_required(req[p].quantity, req[p].price)]
    /\ ops' = [ops EXCEPT ![p] = @ \o <<"get_balance", "get_all_positions">>
                                   \o mark_reads(req[p].account_id)]
    /\ pc' = [pc EXCEPT ![p] = "pre_positions"]
    /\ UNCHANGED <<store, req, result, pre, nreq, nmark, other_services>>

\* pre_trade_check: current_positions = await get_all_positions(account_id).
PrePositions(p) ==
    /\ pc[p] = "pre_positions"
    /\ loc' = [loc EXCEPT ![p].current_positions = get_all_positions(req[p].account_id)]
    /\ ops' = [ops EXCEPT ![p] = Append(@, "get_all_positions")]
    /\ pc' = [pc EXCEPT ![p] = "pre_maintenance"]
    /\ UNCHANGED <<store, req, result, pre, nreq, nmark, other_services>>

\* execute_trade without `if not check_passed: raise`: a rejected trade
\* goes on to the writes.
PreMaintenance_no_raise(p) ==
    /\ pc[p] = "pre_maintenance"
    /\ LET maint == calculate_maintenance_margin(req[p].account_id)
           decision == pre_trade_decision(req[p].side, req[p].quantity, loc[p].equity,
                                          loc[p].required_margin,
                                          loc[p].current_positions, maint)
       IN  /\ loc' = [loc EXCEPT ![p].current_maintenance = maint,
                                  ![p].message = decision]
           /\ IF decision \in {"approved", "Insufficient equity", "Insufficient quantity"}
              THEN /\ pc' = [pc EXCEPT ![p] = "get_position"]
                   /\ UNCHANGED result
              ELSE Finish(p, exception_of(decision), decision)
    /\ ops' = [ops EXCEPT ![p] = @ \o <<"get_all_positions">>
                                   \o mark_reads(req[p].account_id)]
    /\ UNCHANGED <<store, req, pre, nreq, nmark, other_services>>

\* pre_trade_check computing the maintenance margin from the mark prices the
\* request found on arrival.
PreMaintenance_arrival_marks(p) ==
    /\ pc[p] = "pre_maintenance"
    /\ LET maint == maintenance_of(get_all_positions(req[p].account_id), pre[p].mark_prices)
           decision == pre_trade_decision(req[p].side, req[p].quantity, loc[p].equity,
                                          loc[p].required_margin,
                                          loc[p].current_positions, maint)
       IN  /\ loc' = [loc EXCEPT ![p].current_maintenance = maint,
                                  ![p].message = decision]
           /\ IF decision = "approved"
              THEN /\ pc' = [pc EXCEPT ![p] = "get_position"]
                   /\ UNCHANGED result
              ELSE Finish(p, exception_of(decision), decision)
    /\ ops' = [ops EXCEPT ![p] = @ \o <<"get_all_positions">>
                                   \o mark_reads(req[p].account_id)]
    /\ UNCHANGED <<store, req, pre, nreq, nmark, other_services>>

\* pre_trade_check: current_maintenance = await calculate_maintenance_margin,
\* then the decision; execute_trade raises on a rejection.
PreMaintenance(p) ==
    /\ pc[p] = "pre_maintenance"
    /\ LET maint == calculate_maintenance_margin(req[p].account_id)
           decision == pre_trade_decision(req[p].side, req[p].quantity, loc[p].equity,
                                          loc[p].required_margin,
                                          loc[p].current_positions, maint)
       IN  /\ loc' = [loc EXCEPT ![p].current_maintenance = maint,
                                  ![p].message = decision]
           /\ IF decision = "approved"
              THEN /\ pc' = [pc EXCEPT ![p] = "get_position"]
                   /\ UNCHANGED result
              ELSE Finish(p, exception_of(decision), decision)
    /\ ops' = [ops EXCEPT ![p] = @ \o <<"get_all_positions">>
                                   \o mark_reads(req[p].account_id)]
    /\ UNCHANGED <<store, req, pre, nreq, nmark, other_services>>

\* execute_trade: current_position = await get_position(account_id, symbol),
\* then the new position.
GetPosition(p) ==
    /\ pc[p] = "get_position"
    /\ LET cur == Some(get_position(req[p].account_id, req[p].symbol))
           new == calculate_new_position(cur, signed_quantity(req[p].side, req[p].quantity),
                                         req[p].price)
       IN  loc' = [loc EXCEPT ![p].current_position = cur,
                              ![p].new_quantity = new[1],
                              ![p].new_avg_price = new[2]]
    /\ ops' = [ops EXCEPT ![p] = Append(@, "get_position")]
    /\ pc' = [pc EXCEPT ![p] = "set_position"]
    /\ UNCHANGED <<store, req, result, pre, nreq, nmark, other_services>>

\* set_position: existing_position = await self.get_position(account_id, symbol).
SetPositionRead(p) ==
    /\ pc[p] = "set_position"
    /\ loc' = [loc EXCEPT ![p].existing_position =
                              get_position(req[p].account_id, req[p].symbol)]
    /\ ops' = [ops EXCEPT ![p] = Append(@, "get_position")]
    /\ pc' = [pc EXCEPT ![p] = "set_position_hset"]
    /\ UNCHANGED <<store, req, result, pre, nreq, nmark, other_services>>

\* set_position writing the hash of the account anew with the one symbol.
SetPositionWrite_whole_hash(p) ==
    /\ pc[p] = "set_position_hset"
    /\ positions' = [positions EXCEPT ![req[p].account_id] =
                        hset(EmptyHash, req[p].symbol,
                             set_position_value(loc[p].existing_position,
                                                loc[p].new_quantity,
                                                loc[p].new_avg_price))]
    /\ ops' = [ops EXCEPT ![p] = Append(@, "hset_position")]
    /\ pc' = [pc EXCEPT ![p] = "get_balance"]
    /\ UNCHANGED <<balances, mark_prices, equity_snap, used_margin_snap, trades,
                   req, loc, result, pre, nreq, nmark, other_services>>

\* set_position: await self.hset(key, symbol, ...).
SetPositionWrite(p) ==
    /\ pc[p] = "set_position_hset"
    /\ positions' = [positions EXCEPT ![req[p].account_id] =
                        hset(@, req[p].symbol,
                             set_position_value(loc[p].existing_position,
                                                loc[p].new_quantity,
                                                loc[p].new_avg_price))]
    /\ ops' = [ops EXCEPT ![p] = Append(@, "hset_position")]
    /\ pc' = [pc EXCEPT ![p] = "get_balance"]
    /\ UNCHANGED <<balances, mark_prices, equity_snap, used_margin_snap, trades,
                   req, loc, result, pre, nreq, nmark, other_services>>

\* execute_trade: current_balance = await get_balance(account_id).
GetBalance(p) ==
    /\ pc[p] = "get_balance"
    /\ loc' = [loc EXCEPT ![p].current_balance = get_balance(req[p].account_id)]
    /\ ops' = [ops EXCEPT ![p] = Append(@, "get_balance")]
    /\ pc' = [pc EXCEPT ![p] = "set_balance"]
    /\ UNCHANGED <<store, req, result, pre, nreq, nmark, other_services>>

\* The balance changed by an atomic increment of the stored value instead of
\* a write of the value computed from the earlier read.
SetBalance_increment(p) ==
    /\ pc[p] = "set_balance"
    /\ balances' = hset(balances, req[p].account_id,
                        Add(get_balance(req[p].account_id),
                            balance_change(req[p].side, loc[p].required_margin)))
    /\ ops' = [ops EXCEPT ![p] = Append(@, "set_balance")]
    /\ pc' = [pc EXCEPT ![p] = "post_equity"]
    /\ UNCHANGED <<positions, mark_prices, equity_snap, used_margin_snap, trades,
                   req, loc, result, pre, nreq, nmark, other_services>>

\* execute_trade: await set_balance(account_id, current_balance + balance_change).
SetBalance(p) ==
    /\ pc[p] = "set_balance"
    /\ balances' = hset(balances, req[p].account_id,
                        Add(loc[p].current_balance,
                            balance_change(req[p].side, loc[p].required_margin)))
    /\ ops' = [ops EXCEPT ![p] = Append(@, "set_balance")]
    /\ pc' = [pc EXCEPT ![p] = "post_equity"]
    /\ UNCHANGED <<positions, mark_prices, equity_snap, used_margin_snap, trades,
                   req, loc, result, pre, nreq, nmark, other_services>>

\* The failure of the snapshot write undoing the writes made before it.
PostEquity_rollback(p) ==
    /\ pc[p] = "post_equity"
    /\ loc' = [loc EXCEPT ![p].equity = calculate_equity(req[p].account_id)]
    /\ ops' = [ops EXCEPT ![p] = @ \o <<"get_balance", "get_all_positions">>
                                   \o mark_reads(req[p].account_id)]
    /\ Finish(p, "AttributeError", "AccountRedisClient has no attribute set_equity")
    /\ balances' = pre[p].balances
    /\ positions' = pre[p].positions
    /\ UNCHANGED <<mark_prices, equity_snap, used_margin_snap, trades, req, pre, nreq, nmark, other_services>>

\* execute_trade: equity = await calculate_equity(account_id); then
\* self.account_client.set_equity, which AccountRedisClient does not define:
\* the AttributeError leaves execute_trade and the request ends there.
PostEquity(p) ==
    /\ pc[p] = "post_equity"
    /\ loc' = [loc EXCEPT ![p].equity = calculate_equity(req[p].account_id)]
    /\ ops' = [ops EXCEPT ![p] = @ \o <<"get_balance", "get_all_positions">>
                                   \o mark_reads(req[p].account_id)]
    /\ Finish(p, "AttributeError", "AccountRedisClient has no attribute set_equity")
    /\ UNCHANGED <<store, req, pre, nreq, nmark, other_services>>

\* A store call fails (the dependency is unavailable): the exception leaves
\* the service and nothing written so far is undone.
StoreFail(p) ==
    /\ InFlight(p)
    /\ Finish(p, "ConnectionError", "dependency unavailable")
    /\ UNCHANGED <<store, req, loc, ops, pre, nreq, nmark, other_services>>

\* The response is sent; the worker is free for the next request.
Respond(p) ==
    /\ pc[p] = "done"
    /\ pc' = [pc EXCEPT ![p] = "idle"]
    /\ req' = [req EXCEPT ![p] = Req0]
    /\ loc' = [loc EXCEPT ![p] = Locals0]
    /\ result' = [result EXCEPT ![p] = Result0]
    /\ ops' = [ops EXCEPT ![p] = <<>>]
    /\ pre' = [pre EXCEPT ![p] = Pre0]
    /\ UNCHANGED <<store, nreq, nmark, other_services>>

\* set_mark_price writing the hash of mark prices anew with the one symbol.
UpdateMarkPriceIn_whole_hash(syms, prices) ==
    /\ nmark < MaxMarkUpdates
    /\ \E s \in syms, price \in prices :
         mark_prices' = hset(EmptyHash, s, price)
    /\ nmark' = nmark + 1
    /\ UNCHANGED <<balances, positions, equity_snap, used_margin_snap, trades,
                   pc, req, loc, result, ops, pre, nreq, other_services>>

\* POST /mark-price: MarketRedisClient.set_mark_price.
UpdateMarkPriceIn(syms, prices) ==
    /\ nmark < MaxMarkUpdates
    /\ \E s \in syms, price \in prices :
         mark_prices' = hset(mark_prices, s, price)
    /\ nmark' = nmark + 1
    /\ UNCHANGED <<balances, positions, equity_snap, used_margin_snap, trades,
                   pc, req, loc, result, ops, pre, nreq, other_services>>

UpdateMarkPrice == UpdateMarkPriceIn(Symbols, MarkPrices)

\* The steps of a request after its arrival.
Step(p) ==
    \/ PreEquity(p)
    \/ PrePositions(p)
    \/ PreMaintenance(p)
    \/ GetPosition(p)
    \/ SetPositionRead(p)
    \/ SetPositionWrite(p)
    \/ GetBalance(p)
    \/ SetBalance(p)
    \/ PostEquity(p)
    \/ StoreFail(p)
    \/ Respond(p)

\* Mark prices move between requests.
QuietUpdateMarkPrice ==
    /\ \A p \in Procs : ~InFlight(p)
    /\ UpdateMarkPrice

Next ==
    \/ \E p \in Procs : Submit(p)
    \/ \E p \in Procs : Step(p)
    \/ QuietUpdateMarkPrice

Spec == Init /\ [][Next]_vars

\* ------------------------------------------------ concurrent requests
\* Two requests on one account in flight together; every await is a point
\* where the other request, or a mark-price update, may run.
ConcAccounts == {1}
ConcSides == {"BUY"}
ConcQuantities == {<<1, 2>>, D(1)}
ConcPrices == {D(50000)}

ConcSubmit(p) ==
    SubmitIn(p, ConcAccounts, Symbols, ConcSides, ConcQuantities, ConcPrices,
             MaxConcRequests)

NextConc ==
    \/ \E p \in Procs : ConcSubmit(p)
    \/ \E p \in Procs : Step(p)
    \/ UpdateMarkPrice

SpecConc == Init /\ [][NextConc]_vars

\* ------------------------------------------------------- pure functions
\* The pure functions of the services called on their own: the arguments are
\* fixed at the start and each call stores what the function returns.
CalcPositionQuantities == {D(-2), D(-1), Zero, D(1), D(2)}
CalcTradeQuantities == {D(-2), D(-1), Zero, <<1, 2>>, D(1), D(2)}
CalcPrices == {D(10000), D(15000), D(50000), D(60000)}
CalcPositions ==
    {None, Some(Position(Zero, Zero))}
        \cup {Some(Position(q, p)) : q \in CalcPositionQuantities, p \in CalcPrices}
CalcEquities == {D(-5000), Zero, D(4999), D(5000), D(5001)}
CalcMaintenances == {Zero, D(4000), D(5000)}

\* The arguments of the position and margin functions, or those of the
\* equity tests; the others keep their value of Calc0.
\* The Python type of a number: what is given to set_balance.
Kinds == {"Decimal", "float"}

\* str(balance), the text HSET stores.
str_of(kind) == "str"

\* float(balance_str) on the text HGET returns.
float_of(text) == "float"

\* AccountRedisClient.get_balance after set_balance: the type of the number
\* that comes back.
get_balance_kind(kind) == float_of(str_of(kind))

\* a + b in Python: Decimal and float do not mix.
kind_add(a, b) == IF a = b THEN a ELSE "TypeError"

\* TradingService.calculate_equity on an account without positions:
\* balance + Decimal('0').
calculate_equity_kind(balance_kind) == kind_add(balance_kind, "Decimal")

InitCalc ==
    /\ InitService
    /\ \/ \E cp \in CalcPositions, tq \in CalcTradeQuantities, tp \in CalcPrices :
            calc = [Calc0 EXCEPT !.current_position = cp, !.trade_quantity = tq,
                                 !.trade_price = tp]
       \/ \E e \in CalcEquities, m \in CalcMaintenances :
            calc = [Calc0 EXCEPT !.equity = e, !.maintenance_required = m]
       \/ \E k \in Kinds : calc = [Calc0 EXCEPT !.kind = k]

\* TradingService.calculate_new_position is called.
CallTradingCalculateNewPosition ==
    /\ calc.trading = None
    /\ calc' = [calc EXCEPT !.trading =
                    Some(calculate_new_position(calc.current_position,
                                                calc.trade_quantity, calc.trade_price))]
    /\ UNCHANGED <<store, pc, req, loc, result, ops, pre, nreq, nmark, liquidations, scan, client>>

\* CalculationsService.calculate_new_position is called.
CallCalculationsCalculateNewPosition ==
    /\ calc.calculations = None
    /\ calc' = [calc EXCEPT !.calculations =
                    Some(calculations_calculate_new_position(calc.current_position,
                                                             calc.trade_quantity,
                                                             calc.trade_price))]
    /\ UNCHANGED <<store, pc, req, loc, result, ops, pre, nreq, nmark, liquidations, scan, client>>

\* MarginService.is_liquidation_candidate is called.
CallIsLiquidationCandidate ==
    /\ calc.candidate = None
    /\ calc' = [calc EXCEPT !.candidate =
                    Some(is_liquidation_candidate(calc.equity, calc.maintenance_required))]
    /\ UNCHANGED <<store, pc, req, loc, result, ops, pre, nreq, nmark, liquidations, scan, client>>

\* TradingService.calculate_initial_margin_required is called.
CallCalculateInitialMarginRequired ==
    /\ calc.margin = None
    /\ calc' = [calc EXCEPT !.margin =
                    Some(calculate_initial_margin_required(calc.trade_quantity,
                                                           calc.trade_price))]
    /\ UNCHANGED <<store, pc, req, loc, result, ops, pre, nreq, nmark, liquidations, scan, client>>

\* MarginService.calculate_margin_utilisation is called.
CallMarginCalculateMarginUtilisation ==
    /\ calc.utilisation = None
    /\ calc' = [calc EXCEPT !.utilisation =
                    Some(calculate_margin_utilisation(calc.equity,
                                                      calc.maintenance_required))]
    /\ UNCHANGED <<store, pc, req, loc, result, ops, pre, nreq, nmark, liquidations, scan, client>>

\* CalculationsService.calculate_margin_utilisation is called.
CallCalculationsCalculateMarginUtilisation ==
    /\ calc.calculations_utilisation = None
    /\ calc' = [calc EXCEPT !.calculations_utilisation =
                    Some(calculations_calculate_margin_utilisation(calc.equity,
                                                                   calc.maintenance_required))]
    /\ UNCHANGED <<store, pc, req, loc, result, ops, pre, nreq, nmark, liquidations, scan, client>>

\* A balance is written with set_balance, read back with get_balance and
\* valued by calculate_equity.
CallGetBalanceAfterSet ==
    /\ calc.number = None
    /\ calc' = [calc EXCEPT !.number =
                    Some([read |-> get_balance_kind(calc.kind),
                          equity |-> calculate_equity_kind(get_balance_kind(calc.kind))])]
    /\ UNCHANGED <<store, pc, req, loc, result, ops, pre, nreq, nmark, liquidations, scan, client>>

NextCalc ==
    \/ CallGetBalanceAfterSet
    \/ CallTradingCalculateNewPosition
    \/ CallCalculationsCalculateNewPosition
    \/ CallIsLiquidationCandidate
    \/ CallCalculateInitialMarginRequired
    \/ CallMarginCalculateMarginUtilisation
    \/ CallCalculationsCalculateMarginUtilisation

SpecCalc == InitCalc /\ [][NextCalc]_vars

\* ------------------------------------------------------------ margin scan
\* GET /margin-report: MarginService.get_margin_utilisation, a coroutine that
\* walks the accounts; every await is a step, and trades and mark-price
\* updates may run between its steps.
ScanFrame == UNCHANGED <<store, pc, req, loc, result, ops, pre, nreq, nmark, calc, client>>

\* The loop goes on to the next account, or to the return.
ScanAdvance(sc) ==
    IF sc.i < Len(sc.all_accounts)
    THEN [sc EXCEPT !.pc = "equity", !.i = sc.i + 1]
    ELSE [sc EXCEPT !.pc = "return"]

\* all_accounts = await get_all_accounts(); the two lists start empty.
ScanStart ==
    /\ scan.pc \in {"idle", "done"}
    /\ scan.n_started < MaxScans
    /\ LET accounts == get_all_accounts
           first == scan.n_started = 0
       IN  scan' = [scan EXCEPT
                      !.pc = IF accounts = <<>> THEN "return" ELSE "equity",
                      !.all_accounts = accounts,
                      !.i = 1,
                      !.liquidation_candidates = <<>>,
                      !.accounts_detail = <<>>,
                      !.report = None,
                      !.status = 0,
                      !.n_started = @ + 1,
                      !.rows_at_start = Len(liquidations),
                      !.first_quiet = IF first THEN \A p \in Procs : ~InFlight(p) ELSE @,
                      !.first_nreq = IF first THEN nreq ELSE @,
                      !.first_nmark = IF first THEN nmark ELSE @]
    /\ UNCHANGED liquidations
    /\ ScanFrame

\* equity = await calculate_account_equity(account_id).
ScanEquity ==
    /\ scan.pc = "equity"
    /\ scan' = [scan EXCEPT !.pc = "maintenance",
                            !.equity = calculate_account_equity(scan.all_accounts[scan.i])]
    /\ UNCHANGED liquidations
    /\ ScanFrame

\* maintenance_required = await calculate_maintenance_margin_required(account_id),
\* then the utilisation, the liquidation test and the detail row; a candidate
\* is appended to the list and goes on to record_liquidation.
ScanMaintenance ==
    /\ scan.pc = "maintenance"
    /\ LET account_id == scan.all_accounts[scan.i]
           equity == scan.equity
           maintenance_required == calculate_maintenance_margin_required(account_id)
           utilisation == calculate_margin_utilisation(equity, maintenance_required)
           is_liquidation == is_liquidation_candidate(equity, maintenance_required)
           account_detail ==
               [account_id |-> account_id, equity |-> equity,
                maintenance_margin_required |-> maintenance_required,
                margin_utilisation_pct |-> utilisation,
                liquidation_risk |-> is_liquidation]
           sc == [scan EXCEPT !.maintenance_required = maintenance_required,
                              !.accounts_detail = Append(@, account_detail)]
       IN  scan' = IF is_liquidation
                   THEN [sc EXCEPT !.pc = "record",
                                   !.liquidation_candidates = Append(@, account_id)]
                   ELSE ScanAdvance(sc)
    /\ UNCHANGED liquidations
    /\ ScanFrame

\* The row record_liquidation inserts.
LiquidationRow(sc) ==
    [account_id |-> sc.all_accounts[sc.i], equity |-> sc.equity,
     maintenance_margin |-> sc.maintenance_required,
     reason |-> <<"Equity below maintenance margin", sc.equity, sc.maintenance_required>>]

\* record_liquidation inserting the row twice.
ScanRecord_twice ==
    /\ scan.pc = "record"
    /\ liquidations' = liquidations \o <<LiquidationRow(scan), LiquidationRow(scan)>>
    /\ scan' = ScanAdvance(scan)
    /\ ScanFrame

\* record_liquidation skipping an account that already has a row.
ScanRecord_dedup ==
    /\ scan.pc = "record"
    /\ liquidations' =
          IF \E k \in 1..Len(liquidations) :
                 liquidations[k].account_id = scan.all_accounts[scan.i]
          THEN liquidations
          ELSE Append(liquidations, LiquidationRow(scan))
    /\ scan' = ScanAdvance(scan)
    /\ ScanFrame

\* record_liquidation closing the positions of the account it records.
ScanRecord_close_positions ==
    /\ scan.pc = "record"
    /\ liquidations' = Append(liquidations, LiquidationRow(scan))
    /\ positions' = [positions EXCEPT ![scan.all_accounts[scan.i]] = EmptyHash]
    /\ scan' = ScanAdvance(scan)
    /\ UNCHANGED <<balances, mark_prices, equity_snap, used_margin_snap, trades,
                   pc, req, loc, result, ops, pre, nreq, nmark, calc, client>>

\* await record_liquidation(account_id, equity, maintenance_required, reason).
ScanRecord ==
    /\ scan.pc = "record"
    /\ liquidations' = Append(liquidations, LiquidationRow(scan))
    /\ scan' = ScanAdvance(scan)
    /\ ScanFrame

\* return {total_accounts, liquidation_candidates, accounts_detail}; the API
\* answers 200 with it.
ScanReturn ==
    /\ scan.pc = "return"
    /\ scan' = [scan EXCEPT
                   !.pc = "done",
                   !.status = 200,
                   !.n_done = @ + 1,
                   !.report = Some([total_accounts |-> Len(scan.all_accounts),
                                    liquidation_candidates |-> scan.liquidation_candidates,
                                    accounts_detail |-> scan.accounts_detail])]
    /\ UNCHANGED liquidations
    /\ ScanFrame

\* A store call of the scan fails: the exception leaves get_margin_utilisation,
\* the API answers 500, and the rows already inserted stay.
ScanFail ==
    /\ scan.pc \in {"equity", "maintenance", "record"}
    /\ scan' = [scan EXCEPT !.pc = "done", !.status = 500, !.n_failed = @ + 1]
    /\ UNCHANGED liquidations
    /\ ScanFrame

\* A step of the scan.
ScanStep ==
    \/ ScanStart
    \/ ScanEquity
    \/ ScanMaintenance
    \/ ScanRecord
    \/ ScanReturn
    \/ ScanFail

\* Trades of account 1 on BTC-PERP, one at a time, with scans and mark-price updates
\* running between their steps.
MarginAccounts == {1}
MarginSymbols == {"BTC-PERP"}
MarginSides == {"BUY", "SELL"}
MarginQuantities == {D(1)}
MarginPrices == {D(50000)}

MarginSubmit(p) ==
    /\ \A q \in Procs \ {p} : pc[q] = "idle"
    /\ \A q \in Procs : q >= p
    /\ SubmitIn(p, MarginAccounts, MarginSymbols, MarginSides, MarginQuantities, MarginPrices,
                MaxRequests)

NextMargin ==
    \/ \E p \in Procs : MarginSubmit(p)
    \/ \E p \in Procs : Step(p)
    \/ UpdateMarkPrice
    \/ ScanStep

SpecMargin == Init /\ [][NextMargin]_vars

\* ------------------------------------------- the store client and queries
\* Calls made on AccountRedisClient directly (as the integration test does
\* to prepare an account) before the first request, and GET /positions/{id}.
MaxClientCalls == 2
MaxQueries == 2

ClientAccounts == {1}
ClientSymbols == {"BTC-PERP"}
ClientBalances == {D(15000)}
\* The (quantity, entry price) pairs given to set_position.
ClientSetArgs == {<<D(1), D(50000)>>, <<D(-1), D(50000)>>, <<Zero, Zero>>}
ClientSides == {"BUY", "SELL"}
ClientQuantities == {D(1)}
ClientMarkPrices == {D(60000)}

\* The symbols of a hash in the order HGETALL lists them.
SymbolOrder == <<"BTC-PERP", "ETH-PERP">>

Quiet == \A p \in Procs : ~InFlight(p)

\* The store is prepared before the first request and the first price move.
Preparing ==
    /\ Quiet
    /\ nreq = 0
    /\ nmark = 0
    /\ client.n_calls < MaxClientCalls

\* AccountRedisClient.set_balance: the entry is overwritten.
ClientSetBalance ==
    /\ Preparing
    /\ \E a \in ClientAccounts, b \in ClientBalances :
         balances' = hset(balances, a, b)
    /\ client' = [client EXCEPT !.n_calls = @ + 1]
    /\ UNCHANGED <<positions, mark_prices, equity_snap, used_margin_snap, trades,
                   pc, req, loc, result, ops, pre, nreq, nmark, liquidations, scan, calc>>

\* AccountRedisClient.set_position: get_position, then HSET of the merged
\* entry.
ClientSetPosition ==
    /\ Preparing
    /\ \E a \in ClientAccounts, s \in ClientSymbols, args \in ClientSetArgs :
         /\ positions' = [positions EXCEPT ![a] =
                            hset(@, s, set_position_value(get_position(a, s), args[1], args[2]))]
         /\ client' = [client EXCEPT
                         !.n_calls = @ + 1,
                         !.last = Some([account_id |-> a, symbol |-> s, quantity |-> args[1],
                                        entry_price |-> args[2], existing |-> get_position(a, s)]),
                         !.got = None]
    /\ UNCHANGED <<balances, mark_prices, equity_snap, used_margin_snap, trades,
                   pc, req, loc, result, ops, pre, nreq, nmark, liquidations, scan, calc>>

\* AccountRedisClient.get_position of the entry that was set last.
ClientGetPosition ==
    /\ Quiet
    /\ nreq = 0
    /\ nmark = 0
    /\ client.last # None
    /\ client.got = None
    /\ client' = [client EXCEPT
                    !.got = Some(get_position(client.last[1].account_id, client.last[1].symbol))]
    /\ UNCHANGED <<store, pc, req, loc, result, ops, pre, nreq, nmark, liquidations, scan, calc>>

\* TradingService.get_account_positions: one row for every position with a
\* nonzero quantity and a mark price, and the equity over those rows.
get_account_positions(account_id) ==
    LET positions_data == get_all_positions(account_id)
        listed(s) == /\ s \in DOMAIN positions_data
                     /\ ~IsZero(positions_data[s].quantity)
                     /\ has_mark_price(mark_prices, s)
        unrealised_pnl(s) ==
            Mul(Sub(mark_prices[s], positions_data[s].avg_price), positions_data[s].quantity)
        symbols == SelectSeq(SymbolOrder, listed)
        rows == [i \in 1..Len(symbols) |->
                   [symbol |-> symbols[i],
                    quantity |-> positions_data[symbols[i]].quantity,
                    avg_price |-> positions_data[symbols[i]].avg_price,
                    mark_price |-> mark_prices[symbols[i]],
                    unrealised_pnl |-> unrealised_pnl(symbols[i])]]
        total_pnl == SumOver([i \in 1..Len(rows) |-> rows[i].unrealised_pnl], 1..Len(rows))
        balance == get_balance(account_id)
    IN  [account_id |-> account_id, balance |-> balance,
         equity |-> Add(balance, total_pnl), positions |-> rows]

\* A query that also caches the equity it computed.
GetPositions_cache_equity ==
    /\ Quiet
    /\ Len(client.queries) < MaxQueries
    /\ \E a \in ClientAccounts :
         /\ client' = [client EXCEPT !.queries =
                         Append(@, [answer |-> get_account_positions(a),
                                    nreq |-> nreq, nmark |-> nmark,
                                    n_calls |-> client.n_calls])]
         /\ equity_snap' = hset(equity_snap, a, get_account_positions(a).equity)
    /\ UNCHANGED <<balances, positions, mark_prices, used_margin_snap, trades,
                   pc, req, loc, result, ops, pre, nreq, nmark, liquidations, scan, calc>>

\* GET /positions/{account_id} between requests: the answer of
\* get_account_positions; nothing is written.
GetPositions ==
    /\ Quiet
    /\ Len(client.queries) < MaxQueries
    /\ \E a \in ClientAccounts :
         client' = [client EXCEPT !.queries =
                      Append(@, [answer |-> get_account_positions(a),
                                 nreq |-> nreq, nmark |-> nmark,
                                    n_calls |-> client.n_calls])]
    /\ UNCHANGED <<store, pc, req, loc, result, ops, pre, nreq, nmark, liquidations, scan, calc>>

ClientSubmit(p) ==
    /\ \A q \in Procs \ {p} : pc[q] = "idle"
    /\ \A q \in Procs : q >= p
    /\ SubmitIn(p, ClientAccounts, ClientSymbols, ClientSides, ClientQuantities, Prices,
                MaxRequests)

\* POST /mark-price between requests.
ClientUpdateMarkPrice ==
    /\ Quiet
    /\ UpdateMarkPriceIn(ClientSymbols, ClientMarkPrices)

NextClient ==
    \/ ClientSetBalance
    \/ ClientSetPosition
    \/ ClientGetPosition
    \/ GetPositions
    \/ \E p \in Procs : ClientSubmit(p)
    \/ \E p \in Procs : Step(p)
    \/ ClientUpdateMarkPrice

SpecClient == Init /\ [][NextClient]_vars

\* ------------------------------------------------ the liquidation history
\* MarginService.record_liquidation and get_liquidation_history called on
\* their own: rows are inserted one after the other, so the table is in the
\* order of its timestamps.
MaxLiquidations == 3

HistoryAccounts == {0, 1, 2}
HistoryEquities == {D(4000), D(4999)}
HistoryMaintenance == D(5000)
HistoryLimits == {0, 1, 2, 3}
\* Optional[int]: no account id, or one of the ids.
HistoryAccountIds == {None} \cup {Some(a) : a \in HistoryAccounts}

\* MarginService.record_liquidation: one row is inserted.
RecordLiquidation ==
    /\ Len(liquidations) < MaxLiquidations
    /\ \E a \in HistoryAccounts, e \in HistoryEquities :
         liquidations' =
             Append(liquidations,
                    [account_id |-> a, equity |-> e,
                     maintenance_margin |-> HistoryMaintenance,
                     reason |-> <<"Equity below maintenance margin", e, HistoryMaintenance>>])
    /\ UNCHANGED <<store, pc, req, loc, result, ops, pre, nreq, nmark, scan, calc, client>>

\* ORDER BY timestamp DESC.
Reverse(rows) == [i \in 1..Len(rows) |-> rows[Len(rows) + 1 - i]]

\* LIMIT n.
Limit(rows, n) == SubSeq(rows, 1, IF n < Len(rows) THEN n ELSE Len(rows))

\* MarginService.get_liquidation_history: `if account_id:` chooses the
\* filtered query, so None and 0 both take the unfiltered one.
get_liquidation_history(account_id, limit) ==
    LET of_account(row) == row.account_id = account_id[1]
    IN  IF account_id # None /\ account_id[1] # 0
        THEN Limit(Reverse(SelectSeq(liquidations, of_account)), limit)
        ELSE Limit(Reverse(liquidations), limit)

\* GET /liquidations: the answer of get_liquidation_history.
GetLiquidationHistory ==
    /\ \E account_id \in HistoryAccountIds, limit \in HistoryLimits :
         client' = [client EXCEPT !.history =
                      Some([account_id |-> account_id, limit |-> limit,
                            table |-> liquidations,
                            rows |-> get_liquidation_history(account_id, limit)])]
    /\ UNCHANGED <<store, pc, req, loc, result, ops, pre, nreq, nmark, liquidations, scan, calc>>

NextHistory ==
    \/ RecordLiquidation
    \/ GetLiquidationHistory

SpecHistory == Init /\ [][NextHistory]_vars

\* ------------------------------------------------------------ properties
\* What a request found when it arrived.
PreBalance(p) ==
    IF req[p].account_id \in DOMAIN pre[p].balances
    THEN pre[p].balances[req[p].account_id]
    ELSE Zero
PrePositions_(p) == pre[p].positions[req[p].account_id]
PrePosition(p, symbol) ==
    IF symbol \in DOMAIN PrePositions_(p)
    THEN PrePositions_(p)[symbol]
    ELSE Position(Zero, Zero)
PreEquityOf(p) == equity_of(PreBalance(p), PrePositions_(p), pre[p].mark_prices)
PreMaintenanceOf(p) == maintenance_of(PrePositions_(p), pre[p].mark_prices)

\* The margin a trade requires: abs(quantity) * price * 0.20.
MarginOf(p) == Mul(Mul(Abs(req[p].quantity), req[p].price), <<20, 100>>)

IsBuy(p) == req[p].side \in {"BUY", "buy"}
IsSell(p) == req[p].side \in {"SELL", "sell"}
FractionalBtc(p) == req[p].symbol = "BTC-PERP" /\ req[p].quantity[2] # 1

\* The request was turned down: by the whole-number rule, or by pre_trade_check.
IsRejected(p) ==
    /\ pc[p] # "idle"
    /\ \/ FractionalBtc(p)
       \/ loc[p].message \in {"Insufficient quantity", "Insufficient equity",
                              "Invalid side", "KeyError"}

StoresAsOnArrival(p) ==
    /\ balances = pre[p].balances
    /\ positions = pre[p].positions
    /\ equity_snap = pre[p].equity_snap
    /\ used_margin_snap = pre[p].used_margin_snap
    /\ trades = pre[p].trades

\* C1: a rejected execute_trade (fractional BTC-PERP quantity, insufficient
\* equity, insufficient quantity, invalid side) makes no write: balance,
\* positions, snapshots and trade history are as they were when it arrived.
C1_RejectedNoWrites ==
    \A p \in Procs :
        IsRejected(p) => Writes(p) = <<>> /\ StoresAsOnArrival(p)

\* C1 witness: a SELL of more than the account holds has been rejected.
C1_Witness ==
    \E p \in Procs :
        /\ pc[p] = "done"
        /\ loc[p].message = "Insufficient quantity"
        /\ result[p].status = 400
        /\ PrePositions_(p) # EmptyHash

\* The position write of the request has completed.
PositionWritten(p) == \E i \in 1..Len(ops[p]) : ops[p][i] = "hset_position"
\* The balance write of the request has completed.
BalanceWritten(p) == \E i \in 1..Len(ops[p]) : ops[p][i] = "set_balance"

\* apply_trade on the position the request found.
ExpectedPosition(p) ==
    LET signed == IF IsBuy(p) THEN req[p].quantity ELSE Neg(req[p].quantity)
        new == calculate_new_position(Some(PrePosition(p, req[p].symbol)), signed,
                                      req[p].price)
    IN  Position(new[1], new[2])

\* C2: once an approved trade has written the position, the stored position
\* of (account, symbol) is apply_trade(position before the call, signed
\* quantity, price).
C2_StoredPositionIsApplyTrade ==
    \A p \in Procs :
        PositionWritten(p) =>
            get_position(req[p].account_id, req[p].symbol) = ExpectedPosition(p)

ShortOfTradedSymbol(p) ==
    Lt(Sub(PrePosition(p, req[p].symbol).quantity, req[p].quantity), Zero)

\* C5: a SELL of q on symbol S is rejected for insufficient quantity exactly
\* when the account's position in S minus q is negative.
C5_SellRejectedIffShortOfTradedSymbol ==
    \A p \in Procs :
        (IsSell(p) /\ loc[p].message # "") =>
            (loc[p].message = "Insufficient quantity" <=> ShortOfTradedSymbol(p))

\* A request the business rules turn down: a fractional lot, a side that is
\* neither BUY nor SELL, a SELL of more than is held in the symbol (nothing
\* held included), a BUY the equity does not cover.
BusinessRuleRejection(p) ==
    \/ FractionalBtc(p)
    \/ ~IsBuy(p) /\ ~IsSell(p)
    \/ IsSell(p) /\ ShortOfTradedSymbol(p)
    \/ IsBuy(p) /\ Lt(PreEquityOf(p), Add(MarginOf(p), PreMaintenanceOf(p)))

\* C6: every business-rule rejection of POST /trade is answered with HTTP
\* 400, never 500 (a store that is unavailable aside).
C6_BusinessRejectionIs400 ==
    \A p \in Procs :
        (pc[p] = "done" /\ result[p].exc # "ConnectionError" /\ BusinessRuleRejection(p))
            => result[p].status = 400

WriteOrder == <<"hset_position", "set_balance", "set_equity", "set_used_margin",
                "insert_trade">>

\* C7: a trade that passes the pre-trade check, with every store available,
\* runs to completion: it writes position, balance and both snapshots,
\* appends exactly one Trade record and returns success with the record's id.
C7_ApprovedTradeCompletes ==
    \A p \in Procs :
        (pc[p] = "done" /\ loc[p].message = "approved" /\ result[p].exc # "ConnectionError")
            => /\ result[p].status = 200
               /\ Writes(p) = WriteOrder
               /\ Len(trades) = Len(pre[p].trades) + 1
               /\ trades[Len(trades)].account_id = req[p].account_id
               /\ trades[Len(trades)].symbol = req[p].symbol
               /\ trades[Len(trades)].side = Upper(req[p].side)
               /\ trades[Len(trades)].quantity = req[p].quantity
               /\ trades[Len(trades)].price = req[p].price
               /\ result[p].trade_id = trades[Len(trades)].id

IsPrefix(s, t) == Len(s) <= Len(t) /\ \A i \in 1..Len(s) : s[i] = t[i]

C10_FractionalBtcRejectedBeforeReads ==
    \A p \in Procs :
        (pc[p] # "idle" /\ req[p].symbol = "BTC-PERP" /\ req[p].quantity[2] # 1) =>
            /\ pc[p] = "done"
            /\ result[p].exc = "TradingError"
            /\ result[p].status = 400
            /\ ops[p] = <<>>
            /\ StoresAsOnArrival(p)

\* C10 witness: half a BTC-PERP was refused on an account that holds a position.
C10_Witness ==
    \E p \in Procs :
        /\ pc[p] = "done"
        /\ req[p].symbol = "BTC-PERP"
        /\ req[p].quantity = <<1, 2>>
        /\ result[p].exc = "TradingError"
        /\ ops[p] = <<>>
        /\ PrePositions_(p) # EmptyHash

\* The balance and positions of an account after the request r has run on
\* them alone, from arrival to its balance write, under the mark prices marks.
SerialApply(st, r, marks) ==
    LET rm == calculate_initial_margin_required(r.quantity, r.price)
        decision == pre_trade_decision(r.side, r.quantity,
                                       equity_of(st.balance, st.poss, marks), rm,
                                       st.poss, maintenance_of(st.poss, marks))
        cur == IF r.symbol \in DOMAIN st.poss THEN st.poss[r.symbol]
               ELSE Position(Zero, Zero)
        new == calculate_new_position(Some(cur), signed_quantity(r.side, r.quantity),
                                      r.price)
    IN  IF decision = "approved" /\ ~(r.symbol = "BTC-PERP" /\ r.quantity[2] # 1)
        THEN [balance |-> Add(st.balance, balance_change(r.side, rm)),
              poss |-> hset(st.poss, r.symbol, set_position_value(cur, new[1], new[2]))]
        ELSE st

\* Two requests on one account have both written the balance, each from the
\* same balance read; they are the only two requests there have been.
RacedOnBalance(p, q) ==
    /\ p # q
    /\ nreq = 2
    /\ req[p].account_id = req[q].account_id
    /\ BalanceWritten(p) /\ BalanceWritten(q)
    /\ loc[p].current_balance = loc[q].current_balance

SignedMargin(p) == IF IsBuy(p) THEN Neg(MarginOf(p)) ELSE MarginOf(p)

OtherSide(p) == Upper(req[p].side) \notin {"BUY", "SELL"}

ApprovedAndEnded(p) ==
    /\ pc[p] = "done"
    /\ loc[p].message = "approved"
    /\ result[p].exc # "ConnectionError"

\* C12: once an approved trade has ended, the cached equity of its account is
\* the equity computed from the stored balance, positions and mark prices, and
\* the cached used margin is the maintenance margin of the stored positions.
C12_SnapshotsMatchStore ==
    \A p \in Procs :
        ApprovedAndEnded(p) =>
            LET a == req[p].account_id
            IN  /\ a \in DOMAIN equity_snap
                /\ equity_snap[a] = calculate_equity(a)
                /\ a \in DOMAIN used_margin_snap
                /\ used_margin_snap[a] = calculate_maintenance_margin(a)


\* ------------------------------------------------------ liquidation test
\* C13: is_liquidation_candidate(equity, maintenance_required) is true
\* exactly when equity < maintenance_required: false when the two are equal,
\* true for a negative equity against a positive requirement.
C13_CandidateIffEquityBelow ==
    calc.candidate # None =>
        LET e == calc.equity
            m == calc.maintenance_required
            flagged == calc.candidate[1]
        IN  /\ flagged <=> (e[1] * m[2] < m[1] * e[2])
            /\ e = m => ~flagged
            /\ (e[1] < 0 /\ m[1] > 0) => flagged

\* The boundary: equity 5000 against a requirement of 5000 is not a candidate.
C13_Witness ==
    /\ calc.equity = D(5000)
    /\ calc.maintenance_required = D(5000)
    /\ calc.candidate = Some(FALSE)


\* -------------------------------------------------------------- margin scan
\* A run of the scan has returned its report.
ScanReturned == scan.pc = "done" /\ scan.status = 200

Elements(seq) == {seq[k] : k \in 1..Len(seq)}

\* The rows of the liquidation history inserted since the current run began.
RowsOfRun == SubSeq(liquidations, scan.rows_at_start + 1, Len(liquidations))

\* How many rows of a sequence belong to an account.
RowsFor(rows, a) == Cardinality({k \in 1..Len(rows) : rows[k].account_id = a})

\* equity < maintenance, compared as fractions.
Below(e, m) == e[1] * m[2] < m[1] * e[2]

QuietSinceFirstScan ==
    /\ scan.n_started > 0
    /\ scan.first_quiet
    /\ scan.first_nreq = nreq
    /\ scan.first_nmark = nmark
    /\ scan.n_failed = 0

\* The account is under water in the store as it is now.
Underwater(a) ==
    Below(equity_of(get_balance(a), positions[a], mark_prices),
          maintenance_of(positions[a], mark_prices))

BothCalled == calc.trading # None /\ calc.calculations # None

\* The arguments hold a current position, and the sum of its quantity and the
\* signed trade quantity.
HasPosition == calc.current_position # None
CurrentQty == calc.current_position[1].quantity
CurrentAvg == calc.current_position[1].avg_price
SumQty == Add(CurrentQty, calc.trade_quantity)

\* C18: calculate_new_position (trading and calculations service alike)
\* returns (0, 0) whenever the current quantity plus the signed trade quantity
\* is zero, whatever the current average price and the trade price.
C18_CloseResetsCostBasis ==
    (BothCalled /\ HasPosition /\ SumQty = Zero) =>
        /\ calc.trading[1] = <<Zero, Zero>>
        /\ calc.calculations[1] = <<Zero, Zero>>

\* A long of 2 at 60000 sold whole at 50000.
C18_Witness ==
    /\ BothCalled
    /\ calc.current_position = Some(Position(D(2), D(60000)))
    /\ calc.trade_quantity = D(-2)
    /\ calc.trade_price = D(50000)
    /\ calc.trading[1] = <<Zero, Zero>>


\* The current position and the trade point the same way.
SameSign ==
    \/ (CurrentQty[1] > 0 /\ calc.trade_quantity[1] > 0)
    \/ (CurrentQty[1] < 0 /\ calc.trade_quantity[1] < 0)

\* cq*cp + tq*tp.
TotalCost == Add(Mul(CurrentQty, CurrentAvg), Mul(calc.trade_quantity, calc.trade_price))

\* Half a unit in the last decimal place a division keeps.
HalfUlp == <<1, 2 * Pow10(DivPlaces)>>

\* new_avg * nq is cq*cp + tq*tp up to the rounding of the quotient.
WithinRounding(new) ==
    ~Lt(Mul(Abs(SumQty), HalfUlp), Abs(Sub(Mul(new[2], new[1]), TotalCost)))

\* C19: for a nonzero nq = cq + tq, calculate_new_position returns quantity
\* nq; when cq and tq have the same sign the average price is the quotient
\* (cq*cp + tq*tp) / nq as the decimal division rounds it, so new_avg * nq is
\* cq*cp + tq*tp up to that rounding; in every other case (a reduction, a
\* flip) the average price is tp.
C19_WeightedAverageRounded ==
    (BothCalled /\ HasPosition /\ SumQty # Zero) =>
        \A new \in {calc.trading[1], calc.calculations[1]} :
            /\ new[1] = SumQty
            /\ SameSign => WithinRounding(new)
            /\ ~SameSign => new[2] = calc.trade_price

\* 1 at 10000 and a buy of 2 at 15000: 40000 / 3 is not a finite decimal, and
\* the average price returned times 3 is not 40000.
C19_Witness ==
    /\ BothCalled
    /\ calc.current_position = Some(Position(D(1), D(10000)))
    /\ calc.trade_quantity = D(2)
    /\ calc.trade_price = D(15000)
    /\ calc.trading[1][1] = D(3)
    /\ Mul(calc.trading[1][2], D(3)) # D(40000)
    /\ WithinRounding(calc.trading[1])

\* C19 as stated: in the same-sign case new_avg * nq = cq*cp + tq*tp exactly.
C19_WeightedAverageExact ==
    (BothCalled /\ HasPosition /\ SumQty # Zero) =>
        \A new \in {calc.trading[1], calc.calculations[1]} :
            /\ new[1] = SumQty
            /\ SameSign => Mul(new[2], new[1]) = TotalCost
            /\ ~SameSign => new[2] = calc.trade_price


\* The store reports no position: None, or a position of quantity zero (what
\* get_position returns for a symbol without an entry).
NoCurrentPosition == calc.current_position = None \/ CurrentQty = Zero

\* C20: with no current position the new position is exactly (signed trade
\* quantity, trade price) when the store reports None, and when it reports a
\* zero-quantity position and the trade quantity is not zero; a zero trade on
\* a zero-quantity position gives (0, 0).
C20_FirstTradeSetsPosition ==
    (BothCalled /\ NoCurrentPosition) =>
        \A new \in {calc.trading[1], calc.calculations[1]} :
            IF calc.current_position = None \/ calc.trade_quantity # Zero
            THEN new = <<calc.trade_quantity, calc.trade_price>>
            ELSE new = <<Zero, Zero>>

\* Both ways of having no position, with the same trade: None in one call,
\* and here the zero position of get_position, bought 1 at 50000.
C20_Witness ==
    /\ BothCalled
    /\ calc.current_position = Some(Position(Zero, Zero))
    /\ calc.trade_quantity = D(1)
    /\ calc.trade_price = D(50000)
    /\ calc.trading[1] = <<D(1), D(50000)>>
    /\ calc.trading[1] = calculate_new_position(None, D(1), D(50000))

\* C20 as stated: (signed trade quantity, trade price) in every case.
C20_AlwaysTradeQuantityAndPrice ==
    (BothCalled /\ NoCurrentPosition) =>
        \A new \in {calc.trading[1], calc.calculations[1]} :
            new = <<calc.trade_quantity, calc.trade_price>>

\* C21: in every reachable state of the account store, a stored position
\* whose quantity is 0 has average entry price 0: neither a direct call of
\* set_position nor a trade leaves a cost basis on a flat position.
C21_FlatPositionHasNoCostBasis ==
    \A a \in DOMAIN positions : \A s \in DOMAIN positions[a] :
        IsZero(positions[a][s].quantity) => IsZero(positions[a][s].avg_price)

\* An entry that was open with a cost basis has been brought to quantity 0.
C21_Witness ==
    /\ client.last # None
    /\ ~IsZero(client.last[1].existing.quantity)
    /\ ~IsZero(client.last[1].existing.avg_price)
    /\ client.last[1].symbol \in DOMAIN positions[client.last[1].account_id]
    /\ IsZero(positions[client.last[1].account_id][client.last[1].symbol].quantity)

\* C22: set_position(account, symbol, q, p) followed by get_position(account,
\* symbol) returns quantity q and price p whatever was stored before; in
\* particular set_position(account, symbol, 0, 0) clears an existing position.
C22_GetReturnsWhatWasSet ==
    client.got # None =>
        client.got[1] = Position(client.last[1].quantity, client.last[1].entry_price)

\* C23: initial_margin_required(q, p) is abs(q) * p * 0.20 for every quantity
\* and price: it is the same for q and -q, and nothing about the side of the
\* trade enters it.
C23_InitialMarginSymmetric ==
    calc.margin # None =>
        /\ calc.margin[1] = Norm(AbsInt(calc.trade_quantity[1]) * calc.trade_price[1] * 20,
                                 calc.trade_quantity[2] * calc.trade_price[2] * 100)
        /\ calc.margin[1] = calculate_initial_margin_required(Neg(calc.trade_quantity),
                                                              calc.trade_price)

\* The margin of a negative quantity has been computed.
C23_Witness ==
    /\ calc.margin = Some(D(20000))
    /\ calc.trade_quantity = D(-2)
    /\ calc.trade_price = D(50000)

\* C26: when the maintenance margin required is 0 the margin utilisation is 0
\* whatever the equity (positive, zero or negative), in CalculationsService
\* and in the function the margin report uses.
C26_NoRequirementNoUtilisation ==
    IsZero(calc.maintenance_required) =>
        /\ calc.utilisation # None => calc.utilisation[1] = Zero
        /\ calc.calculations_utilisation # None => calc.calculations_utilisation[1] = Zero

\* C27: with equity 0 and a positive maintenance margin required the margin
\* utilisation is +Infinity, and for positive equity it is
\* maintenance_required / equity * 100, in CalculationsService and in the
\* function the margin report uses.
C27_UnboundedAtZeroEquity ==
    LET expected == IF IsZero(calc.equity) THEN Infinity
                    ELSE Mul(Div(calc.maintenance_required, calc.equity), D(100))
    IN  (~Lt(calc.equity, Zero) /\ Lt(Zero, calc.maintenance_required)) =>
            /\ calc.utilisation # None => calc.utilisation[1] = expected
            /\ calc.calculations_utilisation # None =>
                   calc.calculations_utilisation[1] = expected

\* The positions of a hash that count: nonzero quantity and a mark price.
Counted(poss, marks, s) ==
    /\ s \in DOMAIN poss
    /\ poss[s].quantity # Zero
    /\ s \in DOMAIN marks

\* balance + (mark - avg) * quantity over the counted positions, symbol by
\* symbol.
ExpectedEquity(balance, poss, marks) ==
    LET pnl(s) == IF Counted(poss, marks, s)
                  THEN Mul(Sub(marks[s], poss[s].avg_price), poss[s].quantity)
                  ELSE Zero
    IN  Add(balance, Add(pnl("BTC-PERP"), pnl("ETH-PERP")))

\* abs(quantity) * mark * 0.10 over the counted positions, symbol by symbol.
ExpectedMaintenance(poss, marks) ==
    LET m(s) == IF Counted(poss, marks, s)
                THEN Norm(AbsInt(poss[s].quantity[1]) * marks[s][1] * 10,
                          poss[s].quantity[2] * marks[s][2] * 100)
                ELSE Zero
    IN  Add(m("BTC-PERP"), m("ETH-PERP"))

\* The same positions held the other way round.
Mirrored(poss) ==
    [s \in DOMAIN poss |-> Position(Neg(poss[s].quantity), poss[s].avg_price)]

NothingBetween(q1, q2) ==
    /\ q1.answer.account_id = q2.answer.account_id
    /\ q1.nreq = q2.nreq
    /\ q1.nmark = q2.nmark
    /\ q1.n_calls = q2.n_calls

FirstBuy(p) ==
    /\ req[p] = [account_id |-> 1, symbol |-> "BTC-PERP", side |-> "BUY",
                 quantity |-> D(1), price |-> D(50000)]
    /\ PreBalance(p) = D(15000)
    /\ IsZero(PrePosition(p, "BTC-PERP").quantity)
    /\ pre[p].mark_prices["BTC-PERP"] = D(50000)

\* The second trade of the scenario: BUY 1 BTC-PERP @ 60000 after the first,
\* marked at 60000.
SecondBuy(p) ==
    /\ req[p] = [account_id |-> 1, symbol |-> "BTC-PERP", side |-> "BUY",
                 quantity |-> D(1), price |-> D(60000)]
    /\ PreBalance(p) = D(5000)
    /\ PrePosition(p, "BTC-PERP") = Position(D(1), D(50000))
    /\ pre[p].mark_prices["BTC-PERP"] = D(60000)

\* The request went through pre_trade_check and ended.
Decided(p) == pc[p] = "done" /\ result[p].exc # "ConnectionError"

\* The first trade is approved and leaves balance 5000, position 1 @ 50000
\* and equity 5000.
FirstBuyOutcome(p) ==
    (FirstBuy(p) /\ pc[p] = "done" /\ result[p].exc = "AttributeError") =>
        /\ loc[p].message = "approved"
        /\ loc[p].required_margin = D(10000)
        /\ balances[1] = D(5000)
        /\ positions[1]["BTC-PERP"] = Position(D(1), D(50000))
        /\ loc[p].equity = D(5000)

C30_NoShortPosition ==
    \A a \in DOMAIN positions : \A s \in DOMAIN positions[a] :
        ~Lt(positions[a][s].quantity, Zero)

\* The rows of a table that a query for the account id may return: those of
\* the account when an id is given, all of them otherwise.
RowsOfAccount(table, account_id) ==
    LET of_account(row) == row.account_id = account_id[1]
    IN  IF account_id = None THEN table ELSE SelectSeq(table, of_account)

\* C31: get_liquidation_history(account_id, limit) returns at most limit
\* records, newest first; with an account id (0 included) only records of
\* that account, and with no account id the records of all accounts.
C31_HistoryFilteredNewestFirst ==
    client.history # None =>
        LET h == client.history[1]
            expected == Reverse(RowsOfAccount(h.table, h.account_id))
        IN  /\ Len(h.rows) <= h.limit
            /\ Len(h.rows) <= Len(expected)
            /\ h.rows = SubSeq(expected, 1, Len(h.rows))
            /\ Len(h.rows) < h.limit => h.rows = expected

C33_DecimalEndToEnd ==
    calc.number # None =>
        /\ calc.number[1].read = "Decimal"
        /\ calc.number[1].equity = "Decimal"

\* The balance main.lifespan gives an account.
InitialBalance(a) == IF a = 1 THEN D(10000) ELSE D(5000)

\* The request is the SELL of a round trip: it sells at price p the quantity q
\* that a BUY at p put on the flat account, whose margin left the balance.
ClosesRoundTrip(p) ==
    /\ req[p].side = "SELL"
    /\ PrePosition(p, req[p].symbol) = Position(req[p].quantity, req[p].price)
    /\ PreBalance(p) = Sub(InitialBalance(req[p].account_id), MarginOf(p))
    /\ pre[p].mark_prices = mark_prices

\* C34: on an account flat in a symbol, an approved BUY of q at price p
\* followed at once by a SELL of q at p is approved and leaves the original
\* balance and the position (0, 0) in that symbol.
C34_RoundTripRestores ==
    \A p \in Procs :
        (ClosesRoundTrip(p) /\ Decided(p)) =>
            /\ loc[p].message = "approved"
            /\ balances[req[p].account_id] = InitialBalance(req[p].account_id)
            /\ get_position(req[p].account_id, req[p].symbol) = Position(Zero, Zero)

\* An approved BUY at the current mark price of its symbol has made its
\* writes and valued the account again; the mark prices are as on arrival.
BuyAtMarkCompleted(p) ==
    /\ IsBuy(p)
    /\ ApprovedAndEnded(p)
    /\ result[p].exc = "AttributeError"
    /\ has_mark_price(pre[p].mark_prices, req[p].symbol)
    /\ req[p].price = pre[p].mark_prices[req[p].symbol]
    /\ ~is_liquidation_candidate(PreEquityOf(p), PreMaintenanceOf(p))

\* The maintenance margin of the account after the trade.
PostMaintenanceOf(p) == maintenance_of(positions[req[p].account_id], pre[p].mark_prices)

\* abs(quantity) * price * 0.10 of the trade.
TradeMaintenanceOf(p) == Mul(Mul(Abs(req[p].quantity), req[p].price), <<10, 100>>)

SerialDecision(st, r, marks) ==
    pre_trade_decision(r.side, r.quantity,
                       equity_of(st.balance, st.poss, marks),
                       calculate_initial_margin_required(r.quantity, r.price),
                       st.poss, maintenance_of(st.poss, marks))

\* Run one after the other from st, the request first then second, the second
\* is rejected for insufficient equity.
SecondRejected(st, first, second, marks) ==
    SerialDecision(SerialApply(st, first, marks), second, marks) = "Insufficient equity"

\* Two BUY requests on one account, both in flight from the same stores, the
\* mark prices unchanged since, and whichever runs first the other is
\* rejected for insufficient equity.
ExcludeEachOther(p, q) ==
    /\ p # q
    /\ pc[p] # "idle" /\ pc[q] # "idle"
    /\ IsBuy(p) /\ IsBuy(q)
    /\ req[p].account_id = req[q].account_id
    /\ pre[p] = pre[q]
    /\ mark_prices = pre[p].mark_prices
    /\ LET st0 == [balance |-> PreBalance(p), poss |-> PrePositions_(p)]
       IN  /\ SecondRejected(st0, req[p], req[q], mark_prices)
           /\ SecondRejected(st0, req[q], req[p], mark_prices)

\* C36: when two BUY requests on one account are such that in either serial
\* order the second is rejected for insufficient equity, then however the two
\* execute_trade calls interleave, at most one of them is approved.
C36_AtMostOneApproved ==
    \A p, q \in Procs :
        ExcludeEachOther(p, q) =>
            ~(loc[p].message = "approved" /\ loc[q].message = "approved")


\* ------------------------------------------------- what a trade leaves alone
\* The hashes before and after agree on every key but key.
SameExcept(before, after, key) ==
    \A k \in (DOMAIN before \cup DOMAIN after) \ {key} :
        /\ k \in DOMAIN before
        /\ k \in DOMAIN after
        /\ after[k] = before[k]

\* The step is one of the request p, from its first read to its answer.
TradeStep(p) == pc[p] # "idle" /\ pc'[p] # pc[p]

\* C37: no step of execute_trade for account A and symbol S changes the
\* balance, the positions or the equity and used-margin snapshots of another
\* account, nor the position of A in a symbol other than S.
C37_TradeTouchesOwnEntryOnly ==
    [][\A p \in Procs :
          TradeStep(p) =>
              /\ SameExcept(balances, balances', req[p].account_id)
              /\ SameExcept(positions, positions', req[p].account_id)
              /\ SameExcept(equity_snap, equity_snap', req[p].account_id)
              /\ SameExcept(used_margin_snap, used_margin_snap', req[p].account_id)
              /\ SameExcept(positions[req[p].account_id],
                            positions'[req[p].account_id], req[p].symbol)]_vars

\* C37 witness: a trade has written its position and its balance on an
\* account that holds a position in another symbol, next to another account
\* with a balance; both are as they were when the trade arrived.
C37_Witness ==
    \E p \in Procs : \E s \in Symbols \ {req[p].symbol} :
        \E a \in Accounts \ {req[p].account_id} :
            /\ pc[p] = "done"
            /\ BalanceWritten(p)
            /\ balances[req[p].account_id] # PreBalance(p)
            /\ positions[req[p].account_id] # PrePositions_(p)
            /\ s \in DOMAIN positions[req[p].account_id]
            /\ ~IsZero(positions[req[p].account_id][s].quantity)
            /\ positions[req[p].account_id][s] = PrePositions_(p)[s]
            /\ a \in DOMAIN balances
            /\ balances[a] = pre[p].balances[a]


\* --------------------------------------- what a mark-price update leaves alone
\* The step is a mark-price update.
MarkPriceStep == nmark' # nmark

\* The symbol whose stored mark price the step writes.
Marked(s) == s \in DOMAIN mark_prices' /\ SameExcept(mark_prices, mark_prices', s)

\* C38: a mark-price update for a symbol changes the stored mark price of that
\* symbol and nothing else: balances, positions, the equity and used-margin
\* snapshots, the trade records, the liquidation records and the mark prices
\* of the other symbols are as before.
C38_MarkUpdateTouchesOwnPriceOnly ==
    [][MarkPriceStep =>
          /\ \E s \in Symbols : Marked(s)
          /\ UNCHANGED <<balances, positions, equity_snap, used_margin_snap,
                         trades, liquidations>>]_vars

\* C38 witness: ETH-PERP has received a mark price on a store that holds a
\* changed balance, a position and a liquidation record, and the mark price
\* of BTC-PERP is still the initial one.
C38_Witness ==
    /\ nmark = 1
    /\ "ETH-PERP" \in DOMAIN mark_prices
    /\ mark_prices["BTC-PERP"] = D(50000)
    /\ \E a \in Accounts :
         /\ balances[a] # InitialBalance(a)
         /\ positions[a] # EmptyHash
    /\ liquidations # <<>>
====
